---- MODULE Spec2Model ----
(***************************************************************************)
(* Model of nuke_from_orbit/utils/gke_cluster.py: the wrapper functions    *)
(* around the Compute global-address API and the GKE cluster-manager API,  *)
(* and the rendering of rendered/kubeconfig.yaml.                          *)
(*                                                                         *)
(* The functions of the module are modelled one action each.  A function   *)
(* that is a single remote round trip is one atomic step of its caller;    *)
(* setup_cluster_auth_file is modelled statement by statement.  The two    *)
(* remote services are the environment: their behaviour is not in the      *)
(* repository and is modelled from the specification's description.        *)
(***************************************************************************)
EXTENDS Integers, Sequences, FiniteSets, TLC

\* Bound: the number of long-running operations the remote services issue.
MaxOps == 2

\* The processes that call the library.
Callers == {"c1", "c2"}

\* Inputs the callers draw their arguments from.
Projects == {"proj", "other"}
Zones == {"us-central1-a"}
AddrNames == {"ip1", "ip2"}
ClusterNames == {"lt", "x"}
NodeCounts == {1, 3}
MachineTypes == {"e2-standard-4"}

\* The project that exists on the remote side.
RemoteProject == "proj"

VARIABLES
    addr,       \* Compute: address name -> index of the insert operation that made it, 0 = absent
    cops,       \* Compute: the global operations issued so far, in order
    clusters,   \* GKE: the resource paths of the clusters that exist
    gops,       \* GKE: the operations issued so far, in order
    file,       \* rendered/kubeconfig.yaml: <<>> when absent, <<text>> otherwise
    intruded,   \* history: callers whose open..return window another caller wrote into
    pc,         \* per caller: position in the library
    loc,        \* per caller: locals of setup_cluster_auth_file
    res         \* per caller: the call that last ended (requests sent, response, outcome)

vars == <<addr, cops, clusters, gops, file, intruded, pc, loc, res>>

computeVars == <<addr, cops>>
gkeVars == <<clusters, gops>>

(***************************************************************************)
(* Values                                                                  *)
(***************************************************************************)

\* A function returning v; a function ending in the exception e.
Return(v) == [kind |-> "return", value |-> v]
Raise(e) == [kind |-> "raise", value |-> e]

\* Remote responses: a 2xx with a body, or an error.
Ok(body) == [ok |-> TRUE, body |-> body, error |-> ""]
Err(e) == [ok |-> FALSE, body |-> [name |-> ""], error |-> e]

\* The name the remote services give their k-th operation.
OpName(k) == "operation-" \o ToString(k)
OpNames == {OpName(k) : k \in 1..MaxOps}

\* The literal the Compute service allocates to an address name.
IpLiteral(name) == IF name = "ip1" THEN "34.1.1.1" ELSE "34.2.2.22"

NoRes == [op |-> "", args |-> [name |-> ""], reqs |-> <<>>, resp |-> Ok([name |-> ""]), outcome |-> Return("")]

(***************************************************************************)
(* The Compute service (environment)                                       *)
(***************************************************************************)

\* The services issue no operation beyond the bound.
OpsExhausted == Len(cops) + Len(gops) >= MaxOps

OpIndex(h) == IF \E k \in 1..Len(cops) : OpName(k) = h
              THEN CHOOSE k \in 1..Len(cops) : OpName(k) = h
              ELSE 0

\* An address has finished provisioning when its insert operation is DONE.
AddrReady(name) == addr[name] # 0 /\ cops[addr[name]].status = "DONE"

\* The response of the Compute service to one request, in the current state.
ComputeExecute(req) ==
    IF req.project # RemoteProject THEN Err("RemoteAPIError")
    ELSE CASE req.api = "globalAddresses.insert" ->
                IF req.body.name \notin AddrNames \/ addr[req.body.name] # 0
                    \/ OpsExhausted
                THEN Err("RemoteAPIError")
                ELSE Ok([name |-> OpName(Len(cops) + 1), status |-> "PENDING"])
           [] req.api = "globalAddresses.delete" ->
                IF req.address \notin AddrNames \/ addr[req.address] = 0
                THEN Err("NotFoundError")
                ELSE IF OpsExhausted
                THEN Err("RemoteAPIError")
                ELSE Ok([name |-> OpName(Len(cops) + 1), status |-> "PENDING"])
           [] req.api = "globalOperations.get" ->
                IF OpIndex(req.operation) = 0
                THEN Err("NotFoundError")
                ELSE Ok([name |-> req.operation,
                         status |-> cops[OpIndex(req.operation)].status])
           [] req.api = "globalAddresses.get" ->
                IF req.address \notin AddrNames \/ addr[req.address] = 0
                THEN Err("NotFoundError")
                ELSE IF ~AddrReady(req.address)
                THEN Err("NotReadyError")
                ELSE Ok([name |-> req.address,
                         address |-> IpLiteral(req.address),
                         status |-> "RESERVED"])

\* The effect of one request on the Compute service.
ComputeApply(req) ==
    IF ~ComputeExecute(req).ok THEN UNCHANGED computeVars
    ELSE CASE req.api = "globalAddresses.insert" ->
                /\ cops' = Append(cops, [kind |-> "insert", target |-> req.body.name,
                                         status |-> "PENDING", made |-> 0])
                /\ addr' = [addr EXCEPT ![req.body.name] = Len(cops) + 1]
           [] req.api = "globalAddresses.delete" ->
                /\ cops' = Append(cops, [kind |-> "delete", target |-> req.address,
                                         status |-> "PENDING", made |-> addr[req.address]])
                /\ addr' = addr
           [] OTHER -> UNCHANGED computeVars

\* The status after s in the life of an operation.
NextStatus(s) == IF s = "PENDING" THEN "RUNNING" ELSE "DONE"

\* The service advances its k-th operation; a deletion takes effect when DONE.
ComputeProgress(k) ==
    /\ k \in 1..Len(cops)
    /\ cops[k].status \in {"PENDING", "RUNNING"}
    /\ cops' = [cops EXCEPT ![k].status = NextStatus(cops[k].status)]
    /\ addr' = IF /\ cops[k].kind = "delete"
                  /\ NextStatus(cops[k].status) = "DONE"
                  /\ addr[cops[k].target] = cops[k].made
               THEN [addr EXCEPT ![cops[k].target] = 0]
               ELSE addr
    /\ UNCHANGED <<gkeVars, file, intruded, pc, loc, res>>

\* A service that does not keep to the three documented statuses reports another.
ComputeOffSchema(k) ==
    /\ k \in 1..Len(cops)
    /\ cops[k].status \in {"PENDING", "RUNNING"}
    /\ cops' = [cops EXCEPT ![k].status = "UNKNOWN"]
    /\ UNCHANGED <<addr, gkeVars, file, intruded, pc, loc, res>>

(***************************************************************************)
(* The IP-address functions                                                *)
(***************************************************************************)

\* The end of a function that is one remote round trip.
Finish(c, op, args, reqs, resp, outcome) ==
    /\ pc' = [pc EXCEPT ![c] = "done"]
    /\ res' = [res EXCEPT ![c] = [op |-> op, args |-> args, reqs |-> reqs,
                                  resp |-> resp, outcome |-> outcome]]

create_global_ip_request(name, project) ==
    [api |-> "globalAddresses.insert", project |-> project, body |-> [name |-> name]]

create_global_ip_return(resp) ==
    IF resp.ok THEN Return(resp.body.name) ELSE Raise(resp.error)

create_global_ip(c, name, project) ==
    /\ pc[c] = "idle"
    /\ LET req == create_global_ip_request(name, project)
           resp == ComputeExecute(req)
       IN /\ ComputeApply(req)
          /\ Finish(c, "create_global_ip", [name |-> name, project |-> project], <<req>>, resp, create_global_ip_return(resp))
    /\ UNCHANGED <<gkeVars, file, intruded, loc>>

delete_global_ip_request(name, project) ==
    [api |-> "globalAddresses.delete", project |-> project, address |-> name]

\* Mutant: a failed request is swallowed and the name in its body returned.
delete_global_ip_return_swallowed(resp) ==
    Return(resp.body.name)

delete_global_ip_return(resp) ==
    IF resp.ok THEN Return(resp.body.name) ELSE Raise(resp.error)

delete_global_ip(c, name, project) ==
    /\ pc[c] = "idle"
    /\ LET req == delete_global_ip_request(name, project)
           resp == ComputeExecute(req)
       IN /\ ComputeApply(req)
          /\ Finish(c, "delete_global_ip", [name |-> name, project |-> project], <<req>>, resp, delete_global_ip_return(resp))
    /\ UNCHANGED <<gkeVars, file, intruded, loc>>

compute_task_status_request(task_name, project) ==
    [api |-> "globalOperations.get", project |-> project, operation |-> task_name]

\* Mutant: the name of the operation is returned instead of its status.
compute_task_status_return_name(resp) ==
    IF resp.ok THEN Return(resp.body.name) ELSE Raise(resp.error)

compute_task_status_return(resp) ==
    IF resp.ok THEN Return(resp.body.status) ELSE Raise(resp.error)

compute_task_status(c, task_name, project) ==
    /\ pc[c] = "idle"
    /\ LET req == compute_task_status_request(task_name, project)
           resp == ComputeExecute(req)
       IN /\ ComputeApply(req)
          /\ Finish(c, "compute_task_status",
                    [task_name |-> task_name, project |-> project], <<req>>, resp,
                    compute_task_status_return(resp))
    /\ UNCHANGED <<gkeVars, file, intruded, loc>>

fetch_ip_address_request(name, project) ==
    [api |-> "globalAddresses.get", project |-> project, address |-> name]

\* Mutant: a failed request yields an empty address instead of the error.
fetch_ip_address_return_empty(resp) ==
    IF resp.ok THEN Return(resp.body.address) ELSE Return("")

fetch_ip_address_return(resp) ==
    IF resp.ok THEN Return(resp.body.address) ELSE Raise(resp.error)

fetch_ip_address(c, name, project) ==
    /\ pc[c] = "idle"
    /\ LET req == fetch_ip_address_request(name, project)
           resp == ComputeExecute(req)
       IN /\ ComputeApply(req)
          /\ Finish(c, "fetch_ip_address", [name |-> name, project |-> project], <<req>>, resp, fetch_ip_address_return(resp))
    /\ UNCHANGED <<gkeVars, file, intruded, loc>>

\* The caller takes the outcome of its call and is free to call again.
Resume(c) ==
    /\ pc[c] = "done"
    /\ pc' = [pc EXCEPT ![c] = "idle"]
    /\ res' = [res EXCEPT ![c] = NoRes]
    /\ UNCHANGED <<computeVars, gkeVars, file, intruded, loc>>

(***************************************************************************)
(* The GKE service (environment)                                           *)
(***************************************************************************)

\* The clusters the service can hold: those of its project and zones.
ValidClusterPaths ==
    {"projects/" \o RemoteProject \o "/locations/" \o z \o "/clusters/" \o n :
        z \in Zones, n \in ClusterNames}

\* The resource name of the service's k-th operation.
GkeOpPath(k, z) ==
    "projects/" \o RemoteProject \o "/locations/" \o z \o "/operations/" \o OpName(k)

GkeOpIndex(path) ==
    IF \E k \in 1..Len(gops), z \in Zones : GkeOpPath(k, z) = path
    THEN CHOOSE k \in 1..Len(gops) : \E z \in Zones : GkeOpPath(k, z) = path
    ELSE 0

\* Certificate and endpoint of the cluster at a resource path.
ClusterDescriptor(path) ==
    IF \E z \in Zones : path = "projects/" \o RemoteProject \o "/locations/" \o z
                                \o "/clusters/lt"
    THEN [name |-> path,
          master_auth |-> [cluster_ca_certificate |-> "Q0E9PQ=="],
          endpoint |-> "35.1.1.1"]
    ELSE [name |-> path,
          master_auth |-> [cluster_ca_certificate |-> "WFk="],
          endpoint |-> "35.2.2.22"]

\* The Operation resource of the service's k-th operation.
GkeOperation(k) ==
    [name |-> OpName(k), status |-> [name |-> gops[k].status],
     detail |-> IF gops[k].status = "DONE" THEN "" ELSE "in progress"]

\* The response of the GKE service to one request, in the current state.
GkeExecute(req) ==
    CASE req.api = "CreateCluster" ->
            LET path == req.parent \o "/clusters/" \o req.cluster.name
            IN IF path \notin ValidClusterPaths \/ path \in clusters
                   \/ OpsExhausted
               THEN Err("RemoteAPIError")
               ELSE Ok([name |-> OpName(Len(gops) + 1),
                        status |-> [name |-> "RUNNING"],
                        detail |-> "in progress"])
      [] req.api = "DeleteCluster" ->
            IF req.name \notin clusters THEN Err("NotFoundError")
            ELSE IF OpsExhausted THEN Err("RemoteAPIError")
            ELSE Ok([name |-> OpName(Len(gops) + 1),
                     status |-> [name |-> "RUNNING"],
                     detail |-> "in progress"])
      [] req.api = "GetOperation" ->
            IF GkeOpIndex(req.name) = 0 THEN Err("NotFoundError")
            ELSE Ok(GkeOperation(GkeOpIndex(req.name)))
      [] req.api = "GetCluster" ->
            IF req.name \notin clusters THEN Err("NotFoundError")
            ELSE Ok(ClusterDescriptor(req.name))

\* The effect of one request on the GKE service.
GkeApply(req) ==
    IF ~GkeExecute(req).ok THEN UNCHANGED gkeVars
    ELSE CASE req.api = "CreateCluster" ->
                /\ clusters' = clusters \cup {req.parent \o "/clusters/" \o req.cluster.name}
                /\ gops' = Append(gops, [status |-> "RUNNING"])
           [] req.api = "DeleteCluster" ->
                /\ clusters' = clusters \ {req.name}
                /\ gops' = Append(gops, [status |-> "RUNNING"])
           [] OTHER -> UNCHANGED gkeVars

\* The service completes its k-th operation.
GkeProgress(k) ==
    /\ k \in 1..Len(gops)
    /\ gops[k].status = "RUNNING"
    /\ gops' = [gops EXCEPT ![k].status = "DONE"]
    /\ UNCHANGED <<computeVars, clusters, file, intruded, pc, loc, res>>

(***************************************************************************)
(* The cluster functions                                                   *)
(***************************************************************************)

setup_gke_cluster_parent(project, zone) ==
    "projects/" \o project \o "/locations/" \o zone

\* Mutant: the node count of the pool is a literal, not the argument.
setup_gke_cluster_body_fixed_count(name, node_count, machine_type) ==
    [name |-> name,
     release_channel |-> [channel |-> "REGULAR"],
     node_pools |-> <<
        [name |-> "load-test-pool",
         initial_node_count |-> 3,
         config |-> [machine_type |-> machine_type,
                     oauth_scopes |->
                        <<"https://www.googleapis.com/auth/cloud-platform">>]] >>]

setup_gke_cluster_body(name, node_count, machine_type) ==
    [name |-> name,
     release_channel |-> [channel |-> "REGULAR"],
     node_pools |-> <<
        [name |-> "load-test-pool",
         initial_node_count |-> node_count,
         config |-> [machine_type |-> machine_type,
                     oauth_scopes |->
                        <<"https://www.googleapis.com/auth/cloud-platform">>]] >>]

setup_gke_cluster_request(name, project, zone, node_count, machine_type) ==
    [api |-> "CreateCluster",
     parent |-> setup_gke_cluster_parent(project, zone),
     cluster |-> setup_gke_cluster_body(name, node_count, machine_type)]

setup_gke_cluster_return(resp) ==
    IF resp.ok THEN Return(resp.body.name) ELSE Raise(resp.error)

setup_gke_cluster(c, name, project, zone, node_count, machine_type) ==
    /\ pc[c] = "idle"
    /\ LET req == setup_gke_cluster_request(name, project, zone, node_count, machine_type)
           resp == GkeExecute(req)
       IN /\ GkeApply(req)
          /\ Finish(c, "setup_gke_cluster",
                    [name |-> name, project |-> project, zone |-> zone,
                     node_count |-> node_count, machine_type |-> machine_type],
                    <<req>>, resp, setup_gke_cluster_return(resp))
    /\ UNCHANGED <<computeVars, file, intruded, loc>>

\* Mutant: the cluster is looked up under operations, as in gke_task_status.
delete_gke_cluster_name_operations(name, project, zone) ==
    "projects/" \o project \o "/locations/" \o zone \o "/operations/" \o name

delete_gke_cluster_name(name, project, zone) ==
    "projects/" \o project \o "/locations/" \o zone \o "/clusters/" \o name

delete_gke_cluster_request(name, project, zone) ==
    [api |-> "DeleteCluster", name |-> delete_gke_cluster_name(name, project, zone)]

delete_gke_cluster_return(resp) ==
    IF resp.ok THEN Return(resp.body.name) ELSE Raise(resp.error)

delete_gke_cluster(c, name, project, zone) ==
    /\ pc[c] = "idle"
    /\ LET req == delete_gke_cluster_request(name, project, zone)
           resp == GkeExecute(req)
       IN /\ GkeApply(req)
          /\ Finish(c, "delete_gke_cluster",
                    [name |-> name, project |-> project, zone |-> zone],
                    <<req>>, resp, delete_gke_cluster_return(resp))
    /\ UNCHANGED <<computeVars, file, intruded, loc>>

gke_task_status_request(name, project, zone) ==
    [api |-> "GetOperation",
     name |-> "projects/" \o project \o "/locations/" \o zone \o "/operations/" \o name]

gke_task_status_return(resp) ==
    IF resp.ok THEN Return(resp.body) ELSE Raise(resp.error)

\* Mutant: a failed request is sent a second time.
gke_task_status_retry(c, name, project, zone) ==
    /\ pc[c] = "idle"
    /\ LET req == gke_task_status_request(name, project, zone)
           resp == GkeExecute(req)
       IN /\ GkeApply(req)
          /\ Finish(c, "gke_task_status",
                    [name |-> name, project |-> project, zone |-> zone],
                    IF resp.ok THEN <<req>> ELSE <<req, req>>,
                    resp, gke_task_status_return(resp))
    /\ UNCHANGED <<computeVars, file, intruded, loc>>

gke_task_status(c, name, project, zone) ==
    /\ pc[c] = "idle"
    /\ LET req == gke_task_status_request(name, project, zone)
           resp == GkeExecute(req)
       IN /\ GkeApply(req)
          /\ Finish(c, "gke_task_status",
                    [name |-> name, project |-> project, zone |-> zone],
                    <<req>>, resp, gke_task_status_return(resp))
    /\ UNCHANGED <<computeVars, file, intruded, loc>>

(***************************************************************************)
(* setup_cluster_auth_file                                                 *)
(***************************************************************************)

NoLoc == [name |-> "", project |-> "", zone |-> "", req |-> [name |-> ""],
          resp |-> Ok([name |-> ""]), template |-> <<>>, rendered |-> ""]

\* templates/kubeconfig.yaml: text and the placeholders jinja substitutes.
KubeconfigTemplate ==
    << [kind |-> "text", text |-> "server: https://"],
       [kind |-> "var", text |-> "endpoint"],
       [kind |-> "text", text |-> " ca: "],
       [kind |-> "var", text |-> "ca_cert"],
       [kind |-> "text", text |-> " cluster: gke_"],
       [kind |-> "var", text |-> "project"],
       [kind |-> "text", text |-> "_"],
       [kind |-> "var", text |-> "zone"],
       [kind |-> "text", text |-> "_"],
       [kind |-> "var", text |-> "name"] >>

\* A template file jinja cannot parse.
BrokenTemplate == << [kind |-> "bad", text |-> "{{"] >>

\* What the template file can hold when it is read.
TemplateFiles == {KubeconfigTemplate, BrokenTemplate}

\* The value of kubeconfig_rendered.resolve().
KubeconfigPath == "/nuke_from_orbit/utils/rendered/kubeconfig.yaml"

setup_cluster_auth_file_name(name, project, zone) ==
    "projects/" \o project \o "/locations/" \o zone \o "/clusters/" \o name

setup_cluster_auth_file_request(name, project, zone) ==
    [api |-> "GetCluster", name |-> setup_cluster_auth_file_name(name, project, zone)]

\* Mutant: the certificate and the endpoint are taken from each other's field.
AuthVals_swapped(name, project, zone, cluster) ==
    [name |-> name, project |-> project, zone |-> zone,
     ca_cert |-> cluster.endpoint,
     endpoint |-> cluster.master_auth.cluster_ca_certificate]

\* The dict the template is rendered with.
AuthVals(name, project, zone, cluster) ==
    [name |-> name, project |-> project, zone |-> zone,
     ca_cert |-> cluster.master_auth.cluster_ca_certificate,
     endpoint |-> cluster.endpoint]

\* Template(template).render(**vals): every placeholder replaced by its value as it is.
RECURSIVE Render(_, _)
Render(template, vals) ==
    IF template = <<>> THEN ""
    ELSE (IF Head(template).kind = "var" THEN vals[Head(template).text]
          ELSE Head(template).text) \o Render(Tail(template), vals)

\* A write of text at offset 0 of a file that holds old.
WriteAt0(old, text) == text \o SubSeq(old, Len(text) + 1, Len(old))

\* Mutant: the file is opened without truncation (mode "r+").
OpenForWriting_kept(old) == old

\* What open(kubeconfig_rendered, "w") leaves of the file's text.
OpenForWriting(old) == ""

\* The callers, other than c, that have opened the output and not yet returned.
Writing(c) == {d \in Callers \ {c} : pc[d] \in {"write", "ret"}}

\* The arguments of the call of setup_cluster_auth_file that c is in.
AuthArgs(c) == [name |-> loc[c].name, project |-> loc[c].project, zone |-> loc[c].zone]

\* Lines 151-153: the cluster is fetched.
AuthGetCluster(c, name, project, zone) ==
    /\ pc[c] = "idle"
    /\ LET req == setup_cluster_auth_file_request(name, project, zone)
           resp == GkeExecute(req)
       IN IF resp.ok
          THEN /\ pc' = [pc EXCEPT ![c] = "read"]
               /\ loc' = [loc EXCEPT ![c] = [NoLoc EXCEPT !.name = name,
                                                !.project = project, !.zone = zone,
                                                !.req = req, !.resp = resp]]
               /\ res' = res
          ELSE /\ Finish(c, "setup_cluster_auth_file",
                         [name |-> name, project |-> project, zone |-> zone],
                         <<req>>, resp, Raise(resp.error))
               /\ loc' = loc
    /\ UNCHANGED <<computeVars, gkeVars, file, intruded>>

\* Mutant: the output is opened for writing before the template is read.
AuthReadTemplate_after_open(c) ==
    /\ pc[c] = "read"
    /\ file' = <<"">>
    /\ \/ \E t \in TemplateFiles :
            /\ pc' = [pc EXCEPT ![c] = "render"]
            /\ loc' = [loc EXCEPT ![c].template = t]
            /\ res' = res
       \/ /\ Finish(c, "setup_cluster_auth_file", AuthArgs(c), <<loc[c].req>>, loc[c].resp,
                    Raise("IOError"))
          /\ loc' = [loc EXCEPT ![c] = NoLoc]
    /\ UNCHANGED <<computeVars, gkeVars, intruded>>

\* Line 171: the template is read.
AuthReadTemplate(c) ==
    /\ pc[c] = "read"
    /\ \/ \E t \in TemplateFiles :
            /\ pc' = [pc EXCEPT ![c] = "render"]
            /\ loc' = [loc EXCEPT ![c].template = t]
            /\ res' = res
       \/ /\ Finish(c, "setup_cluster_auth_file", AuthArgs(c), <<loc[c].req>>, loc[c].resp,
                    Raise("IOError"))
          /\ loc' = [loc EXCEPT ![c] = NoLoc]
    /\ UNCHANGED <<computeVars, gkeVars, file, intruded>>

\* Line 173: the template is rendered.
AuthRender(c) ==
    /\ pc[c] = "render"
    /\ IF loc[c].template = BrokenTemplate
       THEN /\ Finish(c, "setup_cluster_auth_file", AuthArgs(c), <<loc[c].req>>, loc[c].resp,
                      Raise("TemplateSyntaxError"))
            /\ loc' = [loc EXCEPT ![c] = NoLoc]
       ELSE /\ pc' = [pc EXCEPT ![c] = "open"]
            /\ loc' = [loc EXCEPT ![c].rendered =
                          Render(loc[c].template,
                                 AuthVals(loc[c].name, loc[c].project, loc[c].zone,
                                          loc[c].resp.body))]
            /\ res' = res
    /\ UNCHANGED <<computeVars, gkeVars, file, intruded>>

\* Line 175: the output is opened for writing, or cannot be.
AuthOpen(c) ==
    /\ pc[c] = "open"
    /\ \/ /\ pc' = [pc EXCEPT ![c] = "write"]
          /\ file' = <<OpenForWriting(IF file = <<>> THEN "" ELSE file[1])>>
          /\ intruded' = (intruded \ {c}) \cup Writing(c)
          /\ UNCHANGED <<loc, res>>
       \/ /\ Finish(c, "setup_cluster_auth_file", AuthArgs(c), <<loc[c].req>>, loc[c].resp,
                    Raise("IOError"))
          /\ loc' = [loc EXCEPT ![c] = NoLoc]
          /\ UNCHANGED <<file, intruded>>
    /\ UNCHANGED <<computeVars, gkeVars>>

\* Lines 176-177: the text reaches the file when the with block closes it.
AuthWrite(c) ==
    /\ pc[c] = "write"
    /\ pc' = [pc EXCEPT ![c] = "ret"]
    /\ file' = <<WriteAt0(IF file = <<>> THEN "" ELSE file[1], loc[c].rendered)>>
    /\ intruded' = intruded \cup Writing(c)
    /\ UNCHANGED <<computeVars, gkeVars, loc, res>>

\* The process is interrupted in the with block: part of the text is written.
AuthInterrupted(c) ==
    /\ pc[c] = "write"
    /\ \E n \in {0, Len(loc[c].rendered) \div 2} :
          file' = <<WriteAt0(IF file = <<>> THEN "" ELSE file[1],
                             SubSeq(loc[c].rendered, 1, n))>>
    /\ intruded' = intruded \cup Writing(c)
    /\ Finish(c, "setup_cluster_auth_file", AuthArgs(c), <<loc[c].req>>, loc[c].resp,
              Raise("Interrupted"))
    /\ loc' = [loc EXCEPT ![c] = NoLoc]
    /\ UNCHANGED <<computeVars, gkeVars>>

\* Line 178: the path of the file is returned.
AuthReturn(c) ==
    /\ pc[c] = "ret"
    /\ Finish(c, "setup_cluster_auth_file", AuthArgs(c), <<loc[c].req>>, loc[c].resp,
              Return(KubeconfigPath))
    /\ loc' = [loc EXCEPT ![c] = NoLoc]
    /\ UNCHANGED <<computeVars, gkeVars, file, intruded>>

setup_cluster_auth_file(c) ==
    \/ \E n \in ClusterNames, p \in Projects, z \in Zones : AuthGetCluster(c, n, p, z)
    \/ AuthReadTemplate(c)
    \/ AuthRender(c)
    \/ AuthOpen(c)
    \/ AuthWrite(c)
    \/ AuthInterrupted(c)
    \/ AuthReturn(c)

(***************************************************************************)
(* Specifications                                                          *)
(***************************************************************************)

Init ==
    /\ addr = [n \in AddrNames |-> 0]
    /\ cops = <<>>
    /\ clusters \in SUBSET ValidClusterPaths
    /\ gops = <<>>
    /\ file = <<>>
    /\ intruded = {}
    /\ pc = [c \in Callers |-> "idle"]
    /\ loc = [c \in Callers |-> NoLoc]
    /\ res = [c \in Callers |-> NoRes]

AddrStep(c) ==
    \/ \E n \in AddrNames, p \in Projects : create_global_ip(c, n, p)
    \/ \E n \in AddrNames, p \in Projects : delete_global_ip(c, n, p)
    \/ \E h \in OpNames, p \in Projects : compute_task_status(c, h, p)
    \/ \E n \in AddrNames, p \in Projects : fetch_ip_address(c, n, p)

ClusterStep(c) ==
    \/ \E n \in ClusterNames, p \in Projects, z \in Zones,
          k \in NodeCounts, m \in MachineTypes : setup_gke_cluster(c, n, p, z, k, m)
    \/ \E n \in ClusterNames, p \in Projects, z \in Zones : delete_gke_cluster(c, n, p, z)
    \/ \E h \in OpNames, p \in Projects, z \in Zones : gke_task_status(c, h, p, z)

\* Every other caller has taken the outcome of its last call.  Taking an outcome
\* touches nothing the callers share, so it is ordered before the next step of
\* another caller.
Taken(c) == \A d \in Callers \ {c} : pc[d] # "done"

\* The cluster family, the calls of two callers interleaved.
NextCluster ==
    \/ \E c \in Callers :
          /\ Taken(c)
          /\ ClusterStep(c) \/ setup_cluster_auth_file(c) \/ Resume(c)
    \/ \E k \in 1..MaxOps : GkeProgress(k)

SpecCluster == Init /\ [][NextCluster]_vars

\* A caller steps only while every other caller is between two calls.
Alone(c) == \A d \in Callers \ {c} : pc[d] = "idle"

\* The whole library, its calls not overlapping each other.
Next ==
    \/ \E c \in Callers :
          /\ Alone(c)
          /\ AddrStep(c) \/ ClusterStep(c) \/ setup_cluster_auth_file(c) \/ Resume(c)
    \/ \E k \in 1..MaxOps : ComputeProgress(k) \/ GkeProgress(k)

Spec == Init /\ [][Next]_vars

\* The address family against a service that may leave the documented statuses.
NextProvider ==
    \/ \E c \in Callers : Alone(c) /\ (AddrStep(c) \/ Resume(c))
    \/ \E k \in 1..MaxOps : ComputeProgress(k) \/ ComputeOffSchema(k)

SpecProvider == Init /\ [][NextProvider]_vars

\* The caller that polls: c1 asks for the status of the k-th operation.
Poll(k) == compute_task_status("c1", OpName(k), RemoteProject)

\* The address family with a service that advances every operation and a caller
\* that keeps polling every operation and takes every result.
NextPoll ==
    \/ \E c \in Callers : Alone(c) /\ (AddrStep(c) \/ Resume(c))
    \/ \E k \in 1..MaxOps : ComputeProgress(k)

SpecPoll ==
    /\ Init /\ [][NextPoll]_vars
    /\ \A k \in 1..MaxOps : WF_vars(ComputeProgress(k))
    /\ \A c \in Callers : WF_vars(Alone(c) /\ Resume(c))
    /\ \A k \in 1..MaxOps : SF_vars(Alone("c1") /\ Poll(k))
(***************************************************************************)
(* Properties                                                              *)
(***************************************************************************)

\* Caller c ends a call of op in this step.
Ends(c, op) == pc[c] # "done" /\ pc'[c] = "done" /\ res'[c].op = op

\* C1: every call of setup_gke_cluster sends exactly one CreateCluster request,
\* addressed to projects/{project}/locations/{zone}, whose cluster has the given
\* name, release channel REGULAR, and a node pool list of exactly one pool, named
\* load-test-pool, with the given node count and machine type and the single OAuth
\* scope https://www.googleapis.com/auth/cloud-platform.
C1_CreateClusterRequest ==
    \A c \in Callers :
        pc[c] = "done" /\ res[c].op = "setup_gke_cluster" =>
            LET a == res[c].args
            IN /\ Len(res[c].reqs) = 1
               /\ res[c].reqs[1].api = "CreateCluster"
               /\ res[c].reqs[1].parent
                    = "projects/" \o a.project \o "/locations/" \o a.zone
               /\ res[c].reqs[1].cluster.name = a.name
               /\ res[c].reqs[1].cluster.release_channel = [channel |-> "REGULAR"]
               /\ LET pools == res[c].reqs[1].cluster.node_pools
                  IN /\ Len(pools) = 1
                     /\ pools[1].name = "load-test-pool"
                     /\ pools[1].initial_node_count = a.node_count
                     /\ pools[1].config.machine_type = a.machine_type
                     /\ pools[1].config.oauth_scopes
                          = <<"https://www.googleapis.com/auth/cloud-platform">>

\* C1 witness: a cluster of one node was requested and the service accepted it.
C1_Witness ==
    \E c \in Callers :
        /\ pc[c] = "done" /\ res[c].op = "setup_gke_cluster"
        /\ res[c].args.node_count = 1
        /\ res[c].resp.ok

\* C2: every call of delete_gke_cluster sends exactly one DeleteCluster request,
\* named projects/{project}/locations/{zone}/clusters/{name} from its own
\* arguments; that is the name setup_cluster_auth_file fetches and the cluster
\* setup_gke_cluster creates for the same arguments, different arguments give
\* different names, and the only cluster the call removes is that one.
C2_DeleteClusterPath ==
    [][ \A c \in Callers :
           Ends(c, "delete_gke_cluster") =>
              LET a == res'[c].args
                  path == "projects/" \o a.project \o "/locations/" \o a.zone
                             \o "/clusters/" \o a.name
              IN /\ res'[c].reqs = << [api |-> "DeleteCluster", name |-> path] >>
                 /\ path = setup_cluster_auth_file_name(a.name, a.project, a.zone)
                 /\ path = setup_gke_cluster_parent(a.project, a.zone)
                              \o "/clusters/" \o a.name
                 /\ \A n \in ClusterNames, p \in Projects, z \in Zones :
                       delete_gke_cluster_name(n, p, z) = path
                          => n = a.name /\ p = a.project /\ z = a.zone
                 /\ clusters' = IF res'[c].outcome.kind = "return"
                                THEN clusters \ {path} ELSE clusters
                 /\ res'[c].outcome.kind = "return" => path \in clusters
      ]_vars

\* C2 witness: a cluster was deleted and another cluster is still there.
C2_Witness ==
    \E c \in Callers :
        /\ pc[c] = "done" /\ res[c].op = "delete_gke_cluster"
        /\ res[c].outcome.kind = "return"
        /\ clusters # {}
        /\ res[c].reqs[1].name \notin clusters

\* C3: compute_task_status returns one of PENDING, RUNNING and DONE whenever it
\* returns; when the operation record carries another status the call ends in an
\* error instead of returning that status.
C3_StatusOneOfThree ==
    \A c \in Callers :
        pc[c] = "done" /\ res[c].op = "compute_task_status" =>
            IF res[c].resp.ok /\ res[c].resp.body.status \in {"PENDING", "RUNNING", "DONE"}
            THEN res[c].outcome = Return(res[c].resp.body.status)
            ELSE res[c].outcome.kind = "raise"

\* C4: a call of delete_global_ip for an address whose earlier deletion has taken
\* effect, with no creation of that name since, ends in NotFoundError and returns
\* no operation handle.
C4_SecondDeleteNotFound ==
    [][ \A c \in Callers :
           /\ Ends(c, "delete_global_ip")
           /\ res'[c].args.project = RemoteProject
           /\ addr[res'[c].args.name] = 0
           /\ \E k \in 1..Len(cops) :
                 /\ cops[k].kind = "delete"
                 /\ cops[k].target = res'[c].args.name
                 /\ cops[k].status = "DONE"
           => res'[c].outcome = Raise("NotFoundError")
      ]_vars

\* C4 witness: an address was deleted, the deletion is DONE, and a second
\* delete_global_ip of the same name has ended in NotFoundError.
C4_Witness ==
    \E c \in Callers :
        /\ pc[c] = "done" /\ res[c].op = "delete_global_ip"
        /\ res[c].outcome = Raise("NotFoundError")
        /\ \E k \in 1..Len(cops) :
              /\ cops[k].kind = "delete"
              /\ cops[k].target = res[c].args.name
              /\ cops[k].status = "DONE"

\* C5: create_global_ip returns the name of the insert operation it started for
\* its address; one poll is one status read and returns the status the operation
\* then has; once an operation is DONE every later poll of it returns DONE; a
\* fetch of an address whose insert operation is DONE returns the literal allocated
\* to that name; and, the service advancing and the caller polling, every insert
\* operation is eventually observed DONE.
C5_RoundTrip ==
    /\ [][ \A c \in Callers :
              /\ Ends(c, "create_global_ip") /\ res'[c].outcome.kind = "return"
                    => /\ Len(cops') = Len(cops) + 1
                       /\ res'[c].outcome.value = OpName(Len(cops'))
                       /\ cops'[Len(cops')].kind = "insert"
                       /\ cops'[Len(cops')].target = res'[c].args.name
                       /\ cops'[Len(cops')].status = "PENDING"
                       /\ addr'[res'[c].args.name] = Len(cops')
              /\ Ends(c, "compute_task_status")
                    => /\ Len(res'[c].reqs) = 1
                       /\ \A k \in 1..Len(cops) :
                             /\ res'[c].args.task_name = OpName(k)
                             /\ res'[c].args.project = RemoteProject
                             => res'[c].outcome = Return(cops[k].status)
              /\ Ends(c, "fetch_ip_address")
                    /\ res'[c].args.project = RemoteProject
                    /\ AddrReady(res'[c].args.name)
                    => res'[c].outcome = Return(IpLiteral(res'[c].args.name))
         ]_vars
    /\ [][ \A k \in 1..Len(cops) :
              cops[k].status = "DONE" => Len(cops') >= k /\ cops'[k].status = "DONE"
         ]_vars
    /\ \A k \in 1..MaxOps :
          (Len(cops) >= k /\ cops[k].kind = "insert")
             ~> (/\ pc["c1"] = "done" /\ res["c1"].op = "compute_task_status"
                 /\ res["c1"].args.task_name = OpName(k)
                 /\ res["c1"].outcome = Return("DONE"))

\* C5 witness: the insert operation of an address is DONE and a fetch of the
\* address has returned its literal.
C5_Witness ==
    \E c \in Callers :
        /\ pc[c] = "done" /\ res[c].op = "fetch_ip_address"
        /\ AddrReady(res[c].args.name)
        /\ res[c].outcome = Return(IpLiteral(res[c].args.name))

\* C6: fetch_ip_address returns a value only for an address whose insert operation
\* is DONE, and then the literal allocated to that name; for an address that exists
\* and is not yet DONE it ends in NotReadyError.
C6_FetchBeforeDone ==
    [][ \A c \in Callers :
           Ends(c, "fetch_ip_address") =>
              LET a == res'[c].args
              IN /\ res'[c].outcome.kind = "return"
                      => /\ AddrReady(a.name)
                         /\ res'[c].outcome.value = IpLiteral(a.name)
                 /\ a.project = RemoteProject /\ addr[a.name] # 0 /\ ~AddrReady(a.name)
                      => res'[c].outcome = Raise("NotReadyError")
                 /\ a.project = RemoteProject /\ AddrReady(a.name)
                      => res'[c].outcome = Return(IpLiteral(a.name))
      ]_vars

\* C6 witness: an address is being provisioned and a fetch of it has ended in
\* NotReadyError.
C6_Witness ==
    \E c \in Callers :
        /\ pc[c] = "done" /\ res[c].op = "fetch_ip_address"
        /\ res[c].outcome = Raise("NotReadyError")
        /\ addr[res[c].args.name] # 0
        /\ ~AddrReady(res[c].args.name)

\* s holds sub as it is.
Contains(s, sub) ==
    \E i \in 1..(Len(s) - Len(sub) + 1) : SubSeq(s, i, i + Len(sub) - 1) = sub

\* C7: when setup_cluster_auth_file has returned, it has fetched the cluster
\* projects/{project}/locations/{zone}/clusters/{name}, it returns the path of
\* rendered/kubeconfig.yaml, and the file is exactly the template with the fetched
\* certificate and endpoint and the call's name, project and zone in the place of
\* the placeholders: each value is in the file as it is and nothing else is.
C7_RenderedFile ==
    \A c \in Callers :
        /\ pc[c] = "done" /\ res[c].op = "setup_cluster_auth_file"
        /\ res[c].outcome.kind = "return"
        => LET a == res[c].args
               d == res[c].resp.body
           IN /\ res[c].outcome.value = KubeconfigPath
              /\ res[c].reqs = << [api |-> "GetCluster",
                                   name |-> "projects/" \o a.project \o "/locations/"
                                              \o a.zone \o "/clusters/" \o a.name] >>
              /\ file = << Render(KubeconfigTemplate,
                                  [name |-> a.name, project |-> a.project,
                                   zone |-> a.zone,
                                   ca_cert |-> d.master_auth.cluster_ca_certificate,
                                   endpoint |-> d.endpoint]) >>
              /\ Contains(file[1], " ca: " \o d.master_auth.cluster_ca_certificate \o " ")
              /\ Contains(file[1], "https://" \o d.endpoint \o " ")
              /\ Contains(file[1], a.name)
              /\ Contains(file[1], a.project)
              /\ Contains(file[1], a.zone)

\* C7 witness: a kubeconfig was rendered for cluster x and the file holds its
\* certificate.
C7_Witness ==
    \E c \in Callers :
        /\ pc[c] = "done" /\ res[c].op = "setup_cluster_auth_file"
        /\ res[c].outcome = Return(KubeconfigPath)
        /\ res[c].args.name = "x"
        /\ file # <<>>
        /\ Contains(file[1], "WFk=")

\* C8: every call of the library sends exactly one remote request, which reaches
\* the service once; when the request fails the call ends in the error of the
\* response, unchanged, returns no value and leaves the services as they were.
C8_OneRequestErrorPropagated ==
    [][ \A c \in Callers :
           pc[c] # "done" /\ pc'[c] = "done" =>
              /\ Len(res'[c].reqs) = 1
              /\ Len(cops') + Len(gops') <= Len(cops) + Len(gops) + 1
              /\ ~res'[c].resp.ok =>
                    /\ res'[c].outcome = Raise(res'[c].resp.error)
                    /\ UNCHANGED <<computeVars, gkeVars, file>>
      ]_vars

\* C8 witness: one call of each family ended in the error of its request.
C8_Witness ==
    /\ pc["c1"] = "done" /\ res["c1"].op = "gke_task_status"
    /\ ~res["c1"].resp.ok
    /\ res["c1"].outcome = Raise("NotFoundError")
    /\ Len(cops) > 0

C10_FileUntouchedBeforeOpen ==
    [][ \A c \in Callers :
           pc'[c] # pc[c] =>
              /\ pc[c] \in {"idle", "read", "render", "ret", "done"} => file' = file
              /\ pc[c] = "open" /\ pc'[c] = "done" => file' = file
              /\ pc[c] = "open" /\ pc'[c] = "write" => file' = <<"">>
              /\ pc[c] = "write" /\ pc'[c] = "ret"
                    => SubSeq(file'[1], 1, Len(loc[c].rendered)) = loc[c].rendered
              /\ /\ Ends(c, "setup_cluster_auth_file")
                 /\ res'[c].outcome.kind = "raise"
                 /\ res'[c].outcome.value # "Interrupted"
                 => file' = file
      ]_vars

\* C10 witness: a call has ended because the template could not be rendered and
\* the kubeconfig of an earlier call is still in the file.
C10_Witness ==
    \E c \in Callers :
        /\ pc[c] = "done" /\ res[c].op = "setup_cluster_auth_file"
        /\ res[c].outcome = Raise("TemplateSyntaxError")
        /\ file # <<>>
        /\ Contains(file[1], "server: https://35.")
====
